---- MODULE Spec2Model ----
(***************************************************************************)
(* A model of django_run.py: three post_save receivers registered for      *)
(* User, three probes that create a User through the ORM, the Rectangle    *)
(* value class with its generator __iter__, and run_all_tests.             *)
(*                                                                         *)
(* Program counters are the source line numbers of django_run.py: a frame  *)
(* with pc = 24 is about to execute line 24.  The data store and the       *)
(* signal dispatcher belong to the framework; they are modelled by what    *)
(* the calls in the script rely on: unique usernames, a one-to-one         *)
(* Profile, receivers called in registration order in the saving thread,   *)
(* and atomic() discarding every write made inside a block that raises.    *)
(***************************************************************************)
EXTENDS Integers, Sequences, FiniteSets, TLC

\* Bounds of the model.
MaxCalls == 2      \* entry points invoked from the shell in one behaviour
MaxThreads == 2    \* thread identifiers the interpreter may hand out
MaxDim == 1        \* Rectangle fields range over -MaxDim..MaxDim (and 10, 5)
MaxIters == 3      \* generators obtained from the rectangles

\* Program constants: Rectangle(10, 5) in test_rectangle_iteration.
TestLength == 10
TestWidth == 5

VARIABLES
    users,       \* usernames of the rows of auth_user (working state)
    profiles,    \* username -> number of Profile rows whose user is that row
    savepoints,  \* stack of store snapshots, one per open atomic() block
    stack,       \* the interpreter's call stack, bottom first
    exc,         \* the exception being propagated, "None" when there is none
    log,         \* everything print() has written, in order
    mainTid,     \* threading.get_ident() of the shell's thread
    calls,       \* how many entry points the shell has invoked
    entry,       \* the entry point of the latest shell invocation
    pre,         \* the store when the latest shell invocation began
    store0,      \* the store when the process started
    mark,        \* Len(log) when the latest shell invocation began
    outcome,     \* how the latest shell invocation ended
    cbInTxn,     \* create_profile's latest write was made inside atomic()
    rects,       \* the Rectangle instances alive
    iters        \* the generators obtained from them

vars == <<users, profiles, savepoints, stack, exc, log, mainTid, calls, entry,
          pre, store0, mark, outcome, cbInTxn, rects, iters>>

----------------------------------------------------------------------------
(* The Rectangle class.                                                     *)

Dims == (-MaxDim .. MaxDim) \cup {TestLength, TestWidth}

\* Rectangle.__init__: the two fields, stored as given.
Rectangle(length, width) == [length |-> length, width |-> width]

\* (mutant) __iter__ hands out a cursor shared with the previous generator.
NewGeneratorShared(self) ==
    [self |-> self,
     pos |-> IF iters = <<>> THEN 0
             ELSE IF iters[Len(iters)].pos > 2 THEN 2 ELSE iters[Len(iters)].pos,
     out |-> <<>>]

\* The generator object __iter__ returns: its own cursor, nothing yielded yet.
\* pos 0: not started, 1: suspended at the first yield, 2: suspended at the
\* second yield, 3: finished.
NewGenerator(self) == [self |-> self, pos |-> 0, out |-> <<>>]

\* (mutant) the two yield statements in the other order.
GenYieldSwapped(r, pos) ==
    IF pos = 0 THEN "width" :> r.width ELSE "length" :> r.length

\* The value the generator body yields when resumed at pos.
GenYield(r, pos) ==
    IF pos = 0 THEN "length" :> r.length ELSE "width" :> r.width

\* next(g): TRUE when the resumed body reaches a yield, FALSE when it falls
\* off the end (StopIteration).
GenHasNext(g) == g.pos < 2

\* The generator after next(g).
GenNext(g) ==
    IF GenHasNext(g)
    THEN [g EXCEPT !.pos = @ + 1, !.out = Append(@, GenYield(rects[g.self], g.pos))]
    ELSE [g EXCEPT !.pos = 3]

\* iter(rect): Rectangle.__iter__ is called and a new generator is made.
Iter ==
    /\ Len(iters) < MaxIters
    /\ \E r \in 1 .. Len(rects) :
          iters' = Append(iters, NewGenerator(r))
    /\ UNCHANGED <<users, profiles, savepoints, stack, exc, log, mainTid,
                   calls, entry, pre, store0, mark, outcome, cbInTxn, rects>>

\* next(it) on one of the generators.
IterNext ==
    /\ \E i \in 1 .. Len(iters) :
          iters' = [iters EXCEPT ![i] = GenNext(iters[i])]
    /\ UNCHANGED <<users, profiles, savepoints, stack, exc, log, mainTid,
                   calls, entry, pre, store0, mark, outcome, cbInTxn, rects>>

----------------------------------------------------------------------------
(* The data store: auth_user and the Profile table.                         *)

\* The usernames the script ever saves.
Usernames == {"sync_test_user", "thread_test_user", "rollback_user"}

EmptyStore == [users |-> {}, profiles |-> [u \in Usernames |-> 0]]

\* The stores the process may be started on.  The script neither creates nor
\* empties the store, so any rows an earlier process left are there: usernames
\* are unique, a Profile row refers to an existing user, and a user has at
\* most one Profile.
Stores ==
    { [users |-> us, profiles |-> ps] :
        us \in SUBSET Usernames, ps \in [Usernames -> 0 .. 1] }

WellFormed(st) == \A u \in Usernames : st.profiles[u] > 0 => u \in st.users

\* Profile.objects.count()
ProfileCount(ps) ==
    ps["sync_test_user"] + ps["thread_test_user"] + ps["rollback_user"]

\* (mutant) no uniqueness check on username.
IsDuplicateNever(username) == FALSE

\* INSERT INTO auth_user fails when the username is taken.
IsDuplicate(username) == username \in users

\* (mutant) the receiver's write is made outside the block's transaction and
\* survives the rollback.
RolledBackUsersOnly(snapshot, current) ==
    [users |-> snapshot.users, profiles |-> current.profiles]

\* The store a block left by an exception is put back to: transaction.atomic()
\* discards every write made on the connection since the block was entered.
RolledBack(snapshot, current) == snapshot

----------------------------------------------------------------------------
(* The interpreter: frames, output, call, return, raise.                     *)

Frame(fn, pc, tid, arg) == [fn |-> fn, pc |-> pc, tid |-> tid, arg |-> arg]

Top == stack[Len(stack)]

\* One line of output: the text, and the string and the number formatted
\* into it ("" and 0 when the line has none).
Line(txt, s, n) == [txt |-> txt, s |-> s, n |-> n]

\* print(item) of a one-key mapping.
ItemLine(item) ==
    LET k == CHOOSE key \in DOMAIN item : TRUE IN Line("item", k, item[k])

\* The texts of three of the print calls (the dash of line 25 in ASCII).
Created == "User created successfully - after signal completed."
CaughtText == "[Main] Exception caught:"
CountText == "Profiles in DB after rollback:"

\* str(e) of the exceptions that occur.
ForcedError == "Force rollback after signal"
UserDuplicate == "UNIQUE constraint failed: auth_user.username"
ProfileDuplicate == "UNIQUE constraint failed: profile.user_id"

\* (mutant) slow_signal_handler is not connected.
ReceiversWithoutSlow == <<"thread_check", "create_profile">>

\* The receivers connected to post_save for sender=User, in the order the
\* decorators run at import.
Receivers == <<"slow_signal_handler", "thread_check", "create_profile">>

\* (mutant) each receiver is run in a thread of its own.
SignalThreadSpawned(callerTid) == (callerTid % MaxThreads) + 1

\* The thread a receiver is called in: Signal.send calls it directly.
SignalThread(callerTid) == callerTid

\* (mutant) an except clause that matches nothing that is raised.
CatchesNothing(e) == FALSE

\* (mutant) an except clause that matches the forced error only.
CatchesForcedOnly(e) == e = "Force rollback after signal"

\* except Exception: every exception the store or the script raises is one.
Catches(e) == e \in {ForcedError, UserDuplicate, ProfileDuplicate}

\* The first line of each function's body.
StartPc(fn) ==
    CASE fn = "slow_signal_handler" -> 17
      [] fn = "test_synchronous_signal" -> 22
      [] fn = "thread_check" -> 31
      [] fn = "test_thread_signal" -> 34
      [] fn = "create_profile" -> 50
      [] fn = "test_transaction_signal" -> 54
      [] fn = "test_rectangle_iteration" -> 78
      [] fn = "run_all_tests" -> 87
      [] fn = "User.objects.create" -> 0

\* The line after each function's last statement: a frame there returns.
EndPc(fn) ==
    CASE fn = "slow_signal_handler" -> 20
      [] fn = "test_synchronous_signal" -> 26
      [] fn = "thread_check" -> 32
      [] fn = "test_thread_signal" -> 38
      [] fn = "create_profile" -> 52
      [] fn = "test_transaction_signal" -> 65
      [] fn = "test_rectangle_iteration" -> 83
      [] fn = "run_all_tests" -> 91
      [] fn = "User.objects.create" -> Len(Receivers) + 1

\* Where a frame resumes when the call it made at pc returns.
AfterCall(fn, pc) ==
    CASE fn = "test_transaction_signal" /\ pc = 57 -> 59
      [] OTHER -> pc + 1

Goto(p) == stack' = [stack EXCEPT ![Len(stack)].pc = p]

Output(line) == log' = Append(log, line)

\* A plain call: the callee runs in the caller's thread.
Call(fn, arg) == stack' = Append(stack, Frame(fn, StartPc(fn), Top.tid, arg))

Running(fn, pc) ==
    /\ stack # <<>>
    /\ exc = "None"
    /\ Top.fn = fn
    /\ Top.pc = pc

\* The body of the with block of test_transaction_signal (lines 57-59), which
\* lies in its try block; line 60 is the except clause.
InAtomic(f) == f.fn = "test_transaction_signal" /\ f.pc \in {57, 59}

AtExcept(f) == f.fn = "test_transaction_signal" /\ f.pc = 60

----------------------------------------------------------------------------
(* The shell.                                                               *)

EntryPoints ==
    {"test_synchronous_signal", "test_thread_signal", "test_transaction_signal",
     "test_rectangle_iteration", "run_all_tests"}

\* The operator calls one of the functions from the framework's shell.
Invoke ==
    /\ stack = <<>>
    /\ exc = "None"
    /\ calls < MaxCalls
    /\ \E f \in EntryPoints :
          /\ stack' = <<Frame(f, StartPc(f), mainTid, "")>>
          /\ entry' = f
    /\ calls' = calls + 1
    /\ pre' = [users |-> users, profiles |-> profiles]
    /\ mark' = Len(log)
    /\ outcome' = "running"
    /\ UNCHANGED <<users, profiles, savepoints, exc, log, mainTid, store0,
                   cbInTxn, rects, iters>>

\* A frame that ran off its last statement returns to its caller, which
\* resumes after the call; the rectangle probe's locals die with its frame.
Return ==
    /\ stack # <<>>
    /\ exc = "None"
    /\ Top.pc = EndPc(Top.fn)
    /\ LET n == Len(stack) IN
          /\ stack' =
                IF n = 1 THEN <<>>
                ELSE [SubSeq(stack, 1, n - 1) EXCEPT
                         ![n - 1].pc = AfterCall(stack[n - 1].fn, stack[n - 1].pc)]
          /\ outcome' = IF n = 1 THEN "returned" ELSE outcome
    /\ IF Top.fn = "test_rectangle_iteration"
       THEN rects' = <<>> /\ iters' = <<>>
       ELSE UNCHANGED <<rects, iters>>
    /\ UNCHANGED <<users, profiles, savepoints, exc, log, mainTid, calls,
                   entry, pre, store0, mark, cbInTxn>>

\* An exception leaves a frame that has no handler for it; leaving the last
\* frame hands it to the shell, which reports it.
Propagate ==
    /\ stack # <<>>
    /\ exc # "None"
    /\ ~InAtomic(Top)
    /\ ~(AtExcept(Top) /\ Catches(exc))
    /\ stack' = SubSeq(stack, 1, Len(stack) - 1)
    /\ IF Len(stack) = 1
       THEN outcome' = exc /\ exc' = "None"
       ELSE UNCHANGED <<outcome, exc>>
    /\ IF Top.fn = "test_rectangle_iteration"
       THEN rects' = <<>> /\ iters' = <<>>
       ELSE UNCHANGED <<rects, iters>>
    /\ UNCHANGED <<users, profiles, savepoints, log, mainTid, calls, entry,
                   pre, store0, mark, cbInTxn>>

----------------------------------------------------------------------------
(* The framework calls the script makes.                                    *)

\* User.objects.create(username=arg): the INSERT (pc 0), committed at once
\* outside atomic(), then post_save sent to each receiver in turn (pc 1..).
User_objects_create ==
    /\ stack # <<>>
    /\ exc = "None"
    /\ Top.fn = "User.objects.create"
    /\ \/ /\ Top.pc = 0
          /\ IF IsDuplicate(Top.arg)
             THEN exc' = UserDuplicate /\ UNCHANGED <<users, stack>>
             ELSE users' = users \cup {Top.arg} /\ Goto(1) /\ UNCHANGED exc
       \/ /\ Top.pc \in 1 .. Len(Receivers)
          /\ stack' = Append(stack,
                Frame(Receivers[Top.pc], StartPc(Receivers[Top.pc]),
                      SignalThread(Top.tid), Top.arg))
          /\ UNCHANGED <<users, exc>>
    /\ UNCHANGED <<profiles, savepoints, log, mainTid, calls, entry, pre,
                   store0, mark, outcome, cbInTxn, rects, iters>>

\* Leaving the with block by an exception: the block's writes are discarded
\* and the exception goes on to the except clause.
atomic_exit ==
    /\ stack # <<>>
    /\ exc # "None"
    /\ InAtomic(Top)
    /\ LET sp == savepoints[Len(savepoints)]
           st == RolledBack(sp, [users |-> users, profiles |-> profiles])
       IN  /\ users' = st.users
           /\ profiles' = st.profiles
    /\ savepoints' = SubSeq(savepoints, 1, Len(savepoints) - 1)
    /\ Goto(60)
    /\ UNCHANGED <<exc, log, mainTid, calls, entry, pre, store0, mark,
                   outcome, cbInTxn, rects, iters>>

----------------------------------------------------------------------------
(* The receivers.                                                           *)

slow_signal_handler ==
    /\ \/ /\ Running("slow_signal_handler", 17)
          /\ Output(Line("[Signal] Started processing...", "", 0))
          /\ Goto(18)
       \/ /\ Running("slow_signal_handler", 18)   \* time.sleep(3)
          /\ Goto(19)
          /\ UNCHANGED log
       \/ /\ Running("slow_signal_handler", 19)
          /\ Output(Line("[Signal] Finished processing.", "", 0))
          /\ Goto(20)
    /\ UNCHANGED <<users, profiles, savepoints, exc, mainTid, calls, entry,
                   pre, store0, mark, outcome, cbInTxn, rects, iters>>

thread_check ==
    /\ Running("thread_check", 31)
    /\ Output(Line("[Signal] Thread ID:", "", Top.tid))
    /\ Goto(32)
    /\ UNCHANGED <<users, profiles, savepoints, exc, mainTid, calls, entry,
                   pre, store0, mark, outcome, cbInTxn, rects, iters>>

\* The one-to-one field makes a second Profile of one user a uniqueness
\* violation; a user that was just inserted has none, so it does not arise
\* for the rows this script saves.
create_profile ==
    /\ \/ /\ Running("create_profile", 50)   \* Profile.objects.create(user=instance)
          /\ IF profiles[Top.arg] > 0
             THEN exc' = ProfileDuplicate
                  /\ UNCHANGED <<profiles, stack, cbInTxn>>
             ELSE /\ profiles' = [profiles EXCEPT ![Top.arg] = @ + 1]
                  /\ cbInTxn' = (savepoints # <<>>)
                  /\ Goto(51)
                  /\ UNCHANGED exc
          /\ UNCHANGED log
       \/ /\ Running("create_profile", 51)
          /\ Output(Line("[Signal] Profile created inside same transaction", "", 0))
          /\ Goto(52)
          /\ UNCHANGED <<profiles, exc, cbInTxn>>
    /\ UNCHANGED <<users, savepoints, mainTid, calls, entry, pre, store0,
                   mark, outcome, rects, iters>>

----------------------------------------------------------------------------
(* The probes.                                                              *)

test_synchronous_signal ==
    /\ \/ /\ Running("test_synchronous_signal", 22)
          /\ Output(Line("=== Test 1: Synchronous Signal ===", "", 0))
          /\ Goto(23)
       \/ /\ Running("test_synchronous_signal", 23)
          /\ Output(Line("Creating user...", "", 0))
          /\ Goto(24)
       \/ /\ Running("test_synchronous_signal", 24)
          /\ Call("User.objects.create", "sync_test_user")
          /\ UNCHANGED log
       \/ /\ Running("test_synchronous_signal", 25)
          /\ Output(Line(Created, "", 0))
          /\ Goto(26)
    /\ UNCHANGED <<users, profiles, savepoints, exc, mainTid, calls, entry,
                   pre, store0, mark, outcome, cbInTxn, rects, iters>>

test_thread_signal ==
    /\ \/ /\ Running("test_thread_signal", 34)
          /\ Output(Line("=== Test 2: Thread Check ===", "", 0))
          /\ Goto(35)
       \/ /\ Running("test_thread_signal", 35)
          /\ Output(Line("[Main] Thread ID:", "", Top.tid))
          /\ Goto(36)
       \/ /\ Running("test_thread_signal", 36)
          /\ Call("User.objects.create", "thread_test_user")
          /\ UNCHANGED log
       \/ /\ Running("test_thread_signal", 37)
          /\ Output(Line("Both thread IDs should match - same thread.", "", 0))
          /\ Goto(38)
    /\ UNCHANGED <<users, profiles, savepoints, exc, mainTid, calls, entry,
                   pre, store0, mark, outcome, cbInTxn, rects, iters>>

test_transaction_signal ==
    /\ \/ /\ Running("test_transaction_signal", 54)
          /\ Output(Line("=== Test 3: Transaction Behavior ===", "", 0))
          /\ Goto(56)
          /\ UNCHANGED <<savepoints, exc, cbInTxn>>
       \/ /\ Running("test_transaction_signal", 56)   \* with transaction.atomic():
          /\ savepoints' = Append(savepoints, [users |-> users, profiles |-> profiles])
          /\ cbInTxn' = FALSE
          /\ Goto(57)
          /\ UNCHANGED <<log, exc>>
       \/ /\ Running("test_transaction_signal", 57)
          /\ Call("User.objects.create", "rollback_user")
          /\ UNCHANGED <<log, savepoints, exc, cbInTxn>>
       \/ /\ Running("test_transaction_signal", 59)   \* raise Exception(...)
          /\ exc' = ForcedError
          /\ UNCHANGED <<log, savepoints, stack, cbInTxn>>
       \/ /\ stack # <<>> /\ AtExcept(Top) /\ exc # "None" /\ Catches(exc)
          /\ Output(Line(CaughtText, exc, 0))
          /\ exc' = "None"
          /\ Goto(63)
          /\ UNCHANGED <<savepoints, cbInTxn>>
       \/ /\ Running("test_transaction_signal", 63)
          /\ Output(Line(CountText, "", ProfileCount(profiles)))
          /\ Goto(64)
          /\ UNCHANGED <<savepoints, exc, cbInTxn>>
       \/ /\ Running("test_transaction_signal", 64)
          /\ Output(Line("If 0 -> Signal ran in same transaction.", "", 0))
          /\ Goto(65)
          /\ UNCHANGED <<savepoints, exc, cbInTxn>>
    /\ UNCHANGED <<users, profiles, mainTid, calls, entry, pre, store0, mark,
                   outcome, rects, iters>>

test_rectangle_iteration ==
    /\ \/ /\ Running("test_rectangle_iteration", 78)
          /\ Output(Line("=== Test 4: Custom Rectangle Class ===", "", 0))
          /\ Goto(79)
          /\ UNCHANGED <<rects, iters>>
       \/ /\ Running("test_rectangle_iteration", 79)
          /\ rects' = <<Rectangle(TestLength, TestWidth)>>
          /\ Goto(80)
          /\ UNCHANGED <<log, iters>>
       \/ /\ Running("test_rectangle_iteration", 80) /\ iters = <<>>   \* iter(rect)
          /\ iters' = <<NewGenerator(1)>>
          /\ UNCHANGED <<log, rects, stack>>
       \/ /\ Running("test_rectangle_iteration", 80) /\ iters # <<>>   \* next(...)
          /\ iters' = <<GenNext(iters[1])>>
          /\ Goto(IF GenHasNext(iters[1]) THEN 81 ELSE 82)
          /\ UNCHANGED <<log, rects>>
       \/ /\ Running("test_rectangle_iteration", 81)
          /\ Output(ItemLine(iters[1].out[Len(iters[1].out)]))
          /\ Goto(80)
          /\ UNCHANGED <<rects, iters>>
       \/ /\ Running("test_rectangle_iteration", 82)
          /\ Output(Line("", "", 0))
          /\ Goto(83)
          /\ UNCHANGED <<rects, iters>>
    /\ UNCHANGED <<users, profiles, savepoints, exc, mainTid, calls, entry,
                   pre, store0, mark, outcome, cbInTxn>>

run_all_tests ==
    /\ \/ /\ Running("run_all_tests", 87) /\ Call("test_synchronous_signal", "")
       \/ /\ Running("run_all_tests", 88) /\ Call("test_thread_signal", "")
       \/ /\ Running("run_all_tests", 89) /\ Call("test_transaction_signal", "")
       \/ /\ Running("run_all_tests", 90) /\ Call("test_rectangle_iteration", "")
    /\ UNCHANGED <<users, profiles, savepoints, exc, log, mainTid, calls,
                   entry, pre, store0, mark, outcome, cbInTxn, rects, iters>>

----------------------------------------------------------------------------
(* The process in the shell.                                                *)

Init ==
    /\ \E st \in Stores :
          /\ WellFormed(st)
          /\ users = st.users
          /\ profiles = st.profiles
          /\ store0 = st
          /\ pre = st
    /\ savepoints = <<>>
    /\ stack = <<>>
    /\ exc = "None"
    /\ log = <<>>
    /\ mainTid \in 1 .. MaxThreads
    /\ calls = 0
    /\ entry = ""
    /\ mark = 0
    /\ outcome = ""
    /\ cbInTxn = FALSE
    /\ rects = <<>>
    /\ iters = <<>>

Next ==
    \/ Invoke
    \/ Return
    \/ Propagate
    \/ User_objects_create
    \/ atomic_exit
    \/ slow_signal_handler
    \/ thread_check
    \/ create_profile
    \/ test_synchronous_signal
    \/ test_thread_signal
    \/ test_transaction_signal
    \/ test_rectangle_iteration
    \/ run_all_tests

Spec == Init /\ [][Next]_vars

----------------------------------------------------------------------------
\* A process that only constructs one Rectangle and iterates it.
InitRect ==
    /\ \E l \in Dims, w \in Dims : rects = <<Rectangle(l, w)>>
    /\ iters = <<>>
    /\ users = {} /\ profiles = EmptyStore.profiles /\ savepoints = <<>>
    /\ stack = <<>> /\ exc = "None" /\ log = <<>> /\ mainTid = 1
    /\ calls = 0 /\ entry = "" /\ pre = EmptyStore /\ store0 = EmptyStore
    /\ mark = 0 /\ outcome = "" /\ cbInTxn = FALSE

NextRect == Iter \/ IterNext

SpecRect == InitRect /\ [][NextRect]_vars

----------------------------------------------------------------------------
(* Properties.                                                              *)

\* The two mappings a complete iteration of r produces.
Full(r) == <<"length" :> r.length, "width" :> r.width>>

Min(a, b) == IF a < b THEN a ELSE b

\* What a generator that has been resumed g.pos times must have produced.
Produced(g) == g.out = SubSeq(Full(rects[g.self]), 1, Min(g.pos, 2))

\* C1: iterating Rectangle(L, W) to exhaustion yields exactly two items,
\* {'length': L} and then {'width': W}, for every L and W, zero and negative
\* included; Rectangle(10, 5) yields [{'length': 10}, {'width': 5}].
C1_IterationYieldsLengthThenWidth ==
    \A i \in 1 .. Len(iters) :
        LET g == iters[i]
            r == rects[g.self]
        IN  /\ Len(g.out) <= 2
            /\ g.pos = 3 =>
                  /\ Len(g.out) = 2
                  /\ g.out[1] = ("length" :> r.length)
                  /\ g.out[2] = ("width" :> r.width)
            /\ (g.pos = 3 /\ r = Rectangle(TestLength, TestWidth)) =>
                  g.out = <<"length" :> 10, "width" :> 5>>

\* A rectangle with a negative length and a zero width was iterated to
\* exhaustion.
C1_Witness ==
    \E i \in 1 .. Len(iters) :
        /\ iters[i].pos = 3
        /\ rects[iters[i].self].length < 0
        /\ rects[iters[i].self].width = 0

\* C2: two generators obtained from one instance are independent: whatever
\* the interleaving of their steps, each has produced {'length': L} then
\* {'width': W} up to its own position and ends after the second, wherever
\* the other one stands, exhausted or not.
C2_IteratorsIndependent ==
    \A i, j \in 1 .. Len(iters) :
        (i # j /\ iters[i].self = iters[j].self) =>
            /\ Produced(iters[i])
            /\ Produced(iters[j])
            /\ (iters[i].pos = iters[j].pos => iters[i].out = iters[j].out)

\* One generator is exhausted, a later one of the same instance is suspended
\* at its first yield, and a third one has run to its end as well.
C2_Witness ==
    /\ Len(iters) = 3
    /\ iters[1].pos = 3
    /\ iters[2].pos = 1
    /\ iters[2].out = <<"length" :> rects[1].length>>
    /\ iters[3].pos = 3
    /\ rects[1].length # rects[1].width

\* The output of the latest shell invocation.
Since == SubSeq(log, mark + 1, Len(log))

Texts(lines) == {lines[i].txt : i \in 1 .. Len(lines)}

HasFrame(fn) == \E k \in 1 .. Len(stack) : stack[k].fn = fn

\* C3: in test_synchronous_signal the caller's 'User created successfully'
\* comes only after the handler's '[Signal] Finished processing.', which
\* comes after '[Signal] Started processing...' and after the caller's
\* 'Creating user...'; and the caller does not resume while the handler is
\* between its two markers.
C3_CreatedAfterSignalFinished ==
    /\ \A i \in 1 .. Len(log) :
          log[i].txt = Created =>
             \E c, b, f \in 1 .. i :
                /\ c < b /\ b < f /\ f < i
                /\ log[c].txt = "Creating user..."
                /\ log[b].txt = "[Signal] Started processing..."
                /\ log[f].txt = "[Signal] Finished processing."
                /\ \A k \in c + 1 .. i - 1 : log[k].txt # "Creating user..."
    /\ \A h \in 1 .. Len(stack) :
          (stack[h].fn = "slow_signal_handler" /\ stack[h].pc \in {18, 19}) =>
             /\ h = Len(stack)
             /\ \A k \in 1 .. Len(stack) :
                   stack[k].fn = "test_synchronous_signal" => stack[k].pc = 24

\* test_synchronous_signal has created its user and printed its last line.
C3_Witness ==
    /\ entry = "test_synchronous_signal"
    /\ outcome = "returned"
    /\ "sync_test_user" \notin pre.users
    /\ Since[Len(Since)].txt = Created

\* C9: in test_thread_signal the thread identifier thread_check prints is
\* the one the caller printed just before the creation; every frame runs in
\* the shell's thread, so no other thread exists.
C9_SignalInCallerThread ==
    /\ \A m, i \in 1 .. Len(log) :
          (m < i /\ log[m].txt = "[Main] Thread ID:"
                 /\ log[i].txt = "[Signal] Thread ID:"
                 /\ \A k \in m + 1 .. i - 1 : log[k].txt # "[Main] Thread ID:") =>
             log[i].n = log[m].n
    /\ \A k \in 1 .. Len(stack) : stack[k].tid = mainTid

\* test_thread_signal has created its user: both identifiers are printed.
C9_Witness ==
    /\ entry = "test_thread_signal"
    /\ outcome = "returned"
    /\ Since[2].txt = "[Main] Thread ID:"
    /\ \E i \in 3 .. Len(Since) :
          /\ Since[i].txt = "[Signal] Thread ID:"
          /\ Since[i].n = Since[2].n

\* C7: test_synchronous_signal invoked while 'sync_test_user' persists fails
\* with a uniqueness violation: 'User created successfully' is never
\* printed, and inside run_all_tests none of the three later tests runs.
C7_DuplicateUsernameFails ==
    (entry \in {"test_synchronous_signal", "run_all_tests"}
        /\ "sync_test_user" \in pre.users) =>
       /\ Created \notin Texts(Since)
       /\ Texts(Since) \subseteq
             {"=== Test 1: Synchronous Signal ===", "Creating user..."}
       /\ outcome \in {"running", UserDuplicate}
       /\ ~HasFrame("test_thread_signal")
       /\ ~HasFrame("test_transaction_signal")
       /\ ~HasFrame("test_rectangle_iteration")
       /\ users = pre.users

\* run_all_tests, run a second time on a store that was empty at first, has
\* ended with the uniqueness violation.
C7_Witness ==
    /\ store0 = EmptyStore
    /\ calls = 2
    /\ entry = "run_all_tests"
    /\ "sync_test_user" \in pre.users
    /\ outcome = UserDuplicate
    /\ stack = <<>>

\* C5: the forced error of test_transaction_signal is always caught
\* locally: it never leaves the function, its message is printed, the
\* profile count follows and the function returns normally; called from
\* run_all_tests, test_rectangle_iteration still runs.
C5_ForcedErrorCaughtLocally ==
    /\ exc = ForcedError =>
          /\ stack # <<>>
          /\ Top.fn = "test_transaction_signal"
          /\ Top.pc \in {59, 60}
    /\ outcome # ForcedError
    /\ \A i \in 1 .. Len(log) :
          (log[i].txt = CaughtText /\ i < Len(log)) => log[i + 1].txt = CountText
    /\ \A k \in 1 .. Len(stack) :
          (stack[k].fn = "test_transaction_signal" /\ stack[k].pc >= 63) =>
             /\ exc = "None"
             /\ \E i \in 1 .. Len(Since) : Since[i].txt = CaughtText
    /\ (stack = <<>> /\ entry = "test_transaction_signal") =>
          /\ outcome = "returned"
          /\ Since[Len(Since) - 1].txt = CountText
    /\ (stack = <<>> /\ entry = "run_all_tests"
           /\ \E i \in 1 .. Len(Since) : Since[i] = Line(CaughtText, ForcedError, 0)) =>
          /\ outcome = "returned"
          /\ \E i, j, k \in 1 .. Len(Since) :
                /\ i < j /\ j < k
                /\ Since[i].txt = CountText
                /\ Since[j] = Line("item", "length", TestLength)
                /\ Since[k] = Line("item", "width", TestWidth)

\* run_all_tests has returned after the forced error was raised and caught.
C5_Witness ==
    /\ stack = <<>>
    /\ entry = "run_all_tests"
    /\ outcome = "returned"
    /\ \E i \in 1 .. Len(Since) : Since[i] = Line(CaughtText, ForcedError, 0)

\* C10: from an empty store, between invocations every persisted user has
\* exactly one Profile and every Profile refers to a persisted user; outside
\* a transaction there is no 'rollback_user' and no Profile for it; the
\* users of test_synchronous_signal and test_thread_signal have a Profile.
C10_StoreConsistent ==
    store0 = EmptyStore =>
       /\ stack = <<>> =>
             /\ \A u \in users : profiles[u] = 1
             /\ \A u \in Usernames : profiles[u] > 0 => u \in users
       /\ savepoints = <<>> =>
             /\ "rollback_user" \notin users
             /\ profiles["rollback_user"] = 0
       /\ \A u \in Usernames : profiles[u] <= 1

\* From an empty store, all three probes have run, one invocation has failed
\* on a duplicate username, and two users persist.
C10_Witness ==
    /\ store0 = EmptyStore
    /\ stack = <<>>
    /\ users = {"sync_test_user", "thread_test_user"}
    /\ CountText \in Texts(log)
    /\ outcome = UserDuplicate

\* An error other than the forced one is being propagated.
OtherError == exc \in {UserDuplicate, ProfileDuplicate}

\* C4: the Profile count test_transaction_signal reports is the count
\* attributable to the rolled-back user, and it is 0 exactly when
\* create_profile's write took part in the transaction that was rolled
\* back, on an empty store as well as after the other two probes have run.
C4_CountTellsRollback ==
    (store0 = EmptyStore /\ Running("test_transaction_signal", 64)) =>
       /\ log[Len(log)].txt = CountText
       /\ log[Len(log)].n = profiles["rollback_user"]
       /\ (log[Len(log)].n = 0) <=> cbInTxn

\* C8: the tests share no mutable state: what a test prints inside
\* run_all_tests is what it prints when run alone on the initial store; in
\* particular the Profile count of test_transaction_signal is the initial
\* store's count either way.
C8_NoSharedState ==
    (store0 = EmptyStore /\ calls = 1
        /\ entry \in {"test_transaction_signal", "run_all_tests"}) =>
       \A i \in 1 .. Len(Since) :
          Since[i].txt = CountText => Since[i].n = ProfileCount(store0.profiles)

====
